---- MODULE Spec2Model ----
(***************************************************************************)
(* pngme chunk codec: ChunkType (src/src/chunk_type.rs) and Chunk          *)
(* (src/src/chunk.rs).  Byte strings are sequences of naturals in 0..255,  *)
(* a u32 is a natural below 2^32, a usize a natural below 2^64.            *)
(***************************************************************************)
EXTENDS Integers, Sequences, FiniteSets, TLC

\* ------------------------------------------------------------------------
\* Bounds of the explored inputs.
\* ------------------------------------------------------------------------
MaxData == 2
MaxExtra == 1
MaxStrLen == 5
MaxBigDelta == 40

\* ------------------------------------------------------------------------
\* Machine integers.  A u32 is a pair <<hi, lo>> of 16-bit limbs, a usize
\* (64 bits) four 16-bit limbs, most significant first; a u8 and every
\* length of a byte string of the model is a natural.
\* ------------------------------------------------------------------------
U8Mod == 256
LimbMod == 65536

RECURSIVE Xor(_, _)
\* Bitwise exclusive or of two naturals (one limb, or one byte).
Xor(a, b) ==
    IF a = 0 THEN b
    ELSE IF b = 0 THEN a
    ELSE ((a + b) % 2) + 2 * Xor(a \div 2, b \div 2)

\* ^ on u32
Xor32(x, y) == << Xor(x[1], y[1]), Xor(x[2], y[2]) >>

\* >> 8 and >> 1 on u32
Shr8(x) == << x[1] \div U8Mod, (x[1] % U8Mod) * U8Mod + x[2] \div U8Mod >>
Shr1(x) == << x[1] \div 2, (x[1] % 2) * 32768 + x[2] \div 2 >>

\* << 1 on u32 (the bit shifted out is dropped)
Shl1(x) == << (x[1] * 2 + x[2] \div 32768) % LimbMod, (x[2] * 2) % LimbMod >>

\* A small natural as a usize.
UsizeOf(n) == << 0, 0, n \div LimbMod, n % LimbMod >>

\* `x as usize` on a u32: zero extension.
AsUsize(x) == << 0, 0, x[1], x[2] >>

\* `x as u32` on a usize: the low 32 bits are kept, the rest is dropped.
AsU32(x) == << x[3], x[4] >>

\* usize + small natural (wrapping at 2^64).
UsizeAdd(x, n) ==
    LET s4 == x[4] + n
        s3 == x[3] + s4 \div LimbMod
        s2 == x[2] + s3 \div LimbMod
        s1 == x[1] + s2 \div LimbMod
    IN  << s1 % LimbMod, s2 % LimbMod, s3 % LimbMod, s4 % LimbMod >>

\* usize < usize
UsizeLt(x, y) ==
    \E i \in 1..4 : x[i] < y[i] /\ \A j \in 1..(i - 1) : x[j] = y[j]

\* The natural a usize stands for; used only where it is known to be the
\* length of a slice of a byte string of the model.
UsizeNat(x) == x[3] * LimbMod + x[4]

\* u32::to_be_bytes
to_be_bytes(x) ==
    << x[1] \div U8Mod, x[1] % U8Mod, x[2] \div U8Mod, x[2] % U8Mod >>

\* u32::from_le_bytes in place of from_be_bytes
from_le_bytes(b) == << b[4] * U8Mod + b[3], b[2] * U8Mod + b[1] >>

\* u32::from_be_bytes on a 4-byte array
from_be_bytes(b) == << b[1] * U8Mod + b[2], b[3] * U8Mod + b[4] >>

\* ------------------------------------------------------------------------
\* CRC-32/ISO-HDLC as the crc crate computes it: reflected, table driven.
\* ------------------------------------------------------------------------
CRC_32_POLY == << 1217, 7607 >>        \* 0x04C11DB7
CRC_INIT == << 65535, 65535 >>         \* 0xFFFFFFFF
CRC_XOROUT == << 65535, 65535 >>       \* 0xFFFFFFFF
CRC_CHECK == << 52212, 14630 >>        \* 0xCBF43926

RECURSIVE Reflect(_, _)
\* The low `w` bits of the natural x in reverse order.
Reflect(x, w) ==
    IF w = 0 THEN 0
    ELSE (x % 2) * (2 ^ (w - 1)) + Reflect(x \div 2, w - 1)

\* u32::reverse_bits
Reflect32(x) == << Reflect(x[2], 16), Reflect(x[1], 16) >>

\* The polynomial as the reflected algorithm uses it (0xEDB88320).
PolyReflected == Reflect32(CRC_32_POLY)

RECURSIVE CrcShift(_, _)
\* k steps of the reflected shift register on the u32 v.
CrcShift(v, k) ==
    IF k = 0 THEN v
    ELSE CrcShift(IF v[2] % 2 = 1 THEN Xor32(Shr1(v), PolyReflected) ELSE Shr1(v),
                  k - 1)

\* The 256-entry lookup table of the reflected algorithm.
CrcTable == [i \in 0..255 |-> CrcShift(<< 0, i >>, 8)]

RECURSIVE CrcUpdate(_, _, _)
\* digest.update: fold bytes[i..] into the running register.
CrcUpdate(crc, bytes, i) ==
    IF i > Len(bytes) THEN crc
    ELSE CrcUpdate(Xor32(CrcTable[Xor(crc[2] % U8Mod, bytes[i])], Shr8(crc)),
                   bytes, i + 1)

\* digest.finalize
CrcFinalize(crc) == Xor32(crc, CRC_XOROUT)

\* ------------------------------------------------------------------------
\* Results.  Every error of this crate is the unit value: Err(()).  `at` is
\* the source line of the statement that produced the outcome; it is not
\* part of the value the caller receives.
\* ------------------------------------------------------------------------
Ok(v) == [kind |-> "Ok", val |-> << v >>, at |-> 0]
Err(line) == [kind |-> "Err", val |-> << >>, at |-> line]
Panic(line) == [kind |-> "Panic", val |-> << >>, at |-> line]
NoResult == [kind |-> "None", val |-> << >>, at |-> 0]

\* What the caller can observe of a result.
Visible(r) == [kind |-> r.kind, val |-> r.val]

\* ------------------------------------------------------------------------
\* UTF-8 decoding of the standard library (String::from_utf8 and
\* String::from_utf8_lossy); a String is the sequence of its code points.
\* ------------------------------------------------------------------------
REPLACEMENT_CHARACTER == 65533

\* safe_get: the byte at 1-based index i, 0 past the end.
SafeGet(b, i) == IF i <= Len(b) THEN b[i] ELSE 0

utf8_char_width(x) ==
    IF x < 128 THEN 1
    ELSE IF x >= 194 /\ x <= 223 THEN 2
    ELSE IF x >= 224 /\ x <= 239 THEN 3
    ELSE IF x >= 240 /\ x <= 244 THEN 4
    ELSE 0

IsCont(x) == x >= 128 /\ x <= 191

SecondOf3(x, y) ==
    \/ x = 224 /\ y >= 160 /\ y <= 191
    \/ x >= 225 /\ x <= 236 /\ IsCont(y)
    \/ x = 237 /\ y >= 128 /\ y <= 159
    \/ x >= 238 /\ x <= 239 /\ IsCont(y)

SecondOf4(x, y) ==
    \/ x = 240 /\ y >= 144 /\ y <= 191
    \/ x >= 241 /\ x <= 243 /\ IsCont(y)
    \/ x = 244 /\ y >= 128 /\ y <= 143

\* One step of Utf8Chunks::next at index i: whether a scalar value was
\* decoded, its code point, and the index after the bytes consumed.
Utf8Step(b, i) ==
    LET x == b[i]
        w == utf8_char_width(x)
        y == SafeGet(b, i + 1)
        z == SafeGet(b, i + 2)
        u == SafeGet(b, i + 3)
        bad(n) == [valid |-> FALSE, ch |-> REPLACEMENT_CHARACTER, next |-> n]
        good(c, n) == [valid |-> TRUE, ch |-> c, next |-> n]
    IN  IF w = 1 THEN good(x, i + 1)
        ELSE IF w = 2 THEN
            IF IsCont(y) THEN good((x % 32) * 64 + (y % 64), i + 2) ELSE bad(i + 1)
        ELSE IF w = 3 THEN
            IF ~SecondOf3(x, y) THEN bad(i + 1)
            ELSE IF ~IsCont(z) THEN bad(i + 2)
            ELSE good(((x % 16) * 64 + (y % 64)) * 64 + (z % 64), i + 3)
        ELSE IF w = 4 THEN
            IF ~SecondOf4(x, y) THEN bad(i + 1)
            ELSE IF ~IsCont(z) THEN bad(i + 2)
            ELSE IF ~IsCont(u) THEN bad(i + 3)
            ELSE good((((x % 8) * 64 + (y % 64)) * 64 + (z % 64)) * 64 + (u % 64), i + 4)
        ELSE bad(i + 1)

RECURSIVE Utf8Decode(_, _)
\* The decoded steps of b[i..], in order.
Utf8Decode(b, i) ==
    IF i > Len(b) THEN << >>
    ELSE LET s == Utf8Step(b, i) IN << s >> \o Utf8Decode(b, s.next)

\* String::from_utf8(v): Ok(String) iff every step decodes a scalar value.
from_utf8(v) ==
    LET steps == Utf8Decode(v, 1)
    IN  IF \A k \in 1..Len(steps) : steps[k].valid
        THEN Ok([k \in 1..Len(steps) |-> steps[k].ch])
        ELSE Err(0)

\* String::from_utf8_lossy(v).to_string(): each invalid part becomes U+FFFD.
from_utf8_lossy(v) ==
    LET steps == Utf8Decode(v, 1)
    IN  [k \in 1..Len(steps) |-> steps[k].ch]

\* char::encode_utf8
encode_utf8(c) ==
    IF c < 128 THEN << c >>
    ELSE IF c < 2048 THEN << 192 + c \div 64, 128 + (c % 64) >>
    ELSE IF c < 65536 THEN
        << 224 + c \div 4096, 128 + ((c \div 64) % 64), 128 + (c % 64) >>
    ELSE << 240 + c \div 262144, 128 + ((c \div 4096) % 64),
            128 + ((c \div 64) % 64), 128 + (c % 64) >>

RECURSIVE str_as_bytes(_)
\* str::as_bytes: the UTF-8 encoding of the string's code points.
str_as_bytes(s) ==
    IF s = << >> THEN << >> ELSE encode_utf8(Head(s)) \o str_as_bytes(Tail(s))

\* ------------------------------------------------------------------------
\* chunk_type.rs.  A ChunkType is [data |-> its Vec<u8>].
\* ------------------------------------------------------------------------
\* is_valid_byte with the lower bound of the upper-case range excluded
is_valid_byte_strict(b) == (b > 65 /\ b <= 90) \/ (b >= 97 /\ b <= 122)

is_valid_byte(b) == (b >= 65 /\ b <= 90) \/ (b >= 97 /\ b <= 122)

\* u8::is_ascii_uppercase, u8::is_ascii_lowercase
is_ascii_uppercase(b) == b >= 65 /\ b <= 90
is_ascii_lowercase(b) == b >= 97 /\ b <= 122

RECURSIVE ScanBytes(_, _)
\* The loop of from_slice over data[i..]: 0 when every byte is valid,
\* otherwise the index of the byte at which the loop returns.
ScanBytes(data, i) ==
    IF i > Len(data) THEN 0
    ELSE IF ~is_valid_byte(data[i]) THEN i
    ELSE ScanBytes(data, i + 1)

ChunkType_from_slice(data) ==
    IF Len(data) # 4 THEN Err(47)
    ELSE IF ScanBytes(data, 1) # 0 THEN Err(52)
    ELSE Ok([data |-> data])

\* impl TryFrom<[u8; 4]> for ChunkType
ChunkType_try_from(value) == ChunkType_from_slice(value)

\* impl FromStr for ChunkType
ChunkType_from_str(s) == ChunkType_from_slice(str_as_bytes(s))

\* bytes(): copy_from_slice panics unless the Vec holds exactly 4 bytes.
ChunkType_bytes(t) ==
    IF Len(t.data) # 4 THEN Panic(65) ELSE Ok([i \in 1..4 |-> t.data[i]])

\* impl Display for ChunkType: from_utf8(..).unwrap(), then write_str.
ChunkType_fmt(t) ==
    LET str == from_utf8(t.data)
    IN  IF str.kind = "Ok" THEN Ok(str.val[1]) ELSE Panic(23)

\* impl PartialEq for ChunkType
ChunkType_eq(t, other) == t.data = other.data

ChunkType_is_valid(t) == is_ascii_uppercase(t.data[3])
ChunkType_is_critical(t) == is_ascii_uppercase(t.data[1])
\* is_public reading byte 0 instead of byte 1
ChunkType_is_public_byte0(t) == is_ascii_uppercase(t.data[1])
ChunkType_is_public(t) == is_ascii_uppercase(t.data[2])
ChunkType_is_reserved_bit_valid(t) == is_ascii_uppercase(t.data[3])
ChunkType_is_safe_to_copy(t) == is_ascii_lowercase(t.data[4])

\* ------------------------------------------------------------------------
\* chunk.rs.  A Chunk is [typ |-> ChunkType, data |-> bytes, crc |-> u32].
\* ------------------------------------------------------------------------
\* Chunk::new with the update over the type bytes left out
Chunk_new_data_only(chunk_type, data) ==
    [typ |-> chunk_type, data |-> data,
     crc |-> CrcFinalize(CrcUpdate(CRC_INIT, data, 1))]

\* Crc::<u32>::new(&CRC_32_ISO_HDLC).digest(), two updates, finalize.
Chunk_new(chunk_type, data) ==
    LET digest0 == CRC_INIT
        digest1 == CrcUpdate(digest0, ChunkType_bytes(chunk_type).val[1], 1)
        digest2 == CrcUpdate(digest1, data, 1)
    IN  [typ |-> chunk_type, data |-> data, crc |-> CrcFinalize(digest2)]

\* length(): self.data.len() as u32, given data.len()
length_of(data_len) == AsU32(data_len)

Chunk_length(c) == length_of(UsizeOf(Len(c.data)))
Chunk_chunk_type(c) == c.typ
Chunk_data(c) == c.data
Chunk_crc(c) == c.crc
Chunk_data_as_string(c) == Ok(from_utf8_lossy(c.data))
Chunk_as_bytes(c) == c.data

\* impl Display for Chunk
Chunk_fmt(c) ==
    LET v == Chunk_data_as_string(c)
    IN  IF v.kind = "Ok" THEN Ok(v.val[1]) ELSE Ok(<< 69, 114, 114, 111, 114, 58, 32 >>)

\* The length check without the 4 bytes of the trailing crc
NotEnough_no_crc(remain, len) == UsizeLt(UsizeOf(Len(remain)), UsizeAdd(len, 4))

\* remain.len() < len + 8
NotEnough(remain, len) == UsizeLt(UsizeOf(Len(remain)), UsizeAdd(len, 8))

\* The crc comparison against the chunk's own crc
CrcDiffers_self(c, crc) == c.crc # c.crc

\* chunk.crc != crc
CrcDiffers(c, crc) == c.crc # crc

\* try_from with the payload sliced from the rest before the type bytes are
\* skipped
Chunk_try_from_unadvanced(value) ==
    IF Len(value) < 4 THEN Err(28)
    ELSE
      LET len == AsUsize(from_be_bytes(SubSeq(value, 1, 4)))
          remain0 == SubSeq(value, 5, Len(value))
      IN
        IF NotEnough(remain0, len) THEN Err(36)
        ELSE
          LET typ0 == SubSeq(remain0, 1, 4)
              remain1 == SubSeq(remain0, 5, Len(remain0))
              n == UsizeNat(len)
              data == SubSeq(remain0, 1, n)
              remain2 == SubSeq(remain1, n + 1, Len(remain1))
              typ1 == ChunkType_try_from(typ0)
          IN
            IF typ1.kind = "Err" THEN Err(44)
            ELSE
              LET chunk0 == Chunk_new(typ1.val[1], data)
              IN  IF Len(remain2) # 4 THEN Panic(48)
                  ELSE IF CrcDiffers(chunk0, from_be_bytes(remain2)) THEN Err(52)
                  ELSE Ok(chunk0)

\* try_from with the crc comparison moved before the type validation
Chunk_try_from_crc_first(value) ==
    IF Len(value) < 4 THEN Err(28)
    ELSE
      LET len == AsUsize(from_be_bytes(SubSeq(value, 1, 4)))
          remain0 == SubSeq(value, 5, Len(value))
      IN
        IF NotEnough(remain0, len) THEN Err(36)
        ELSE
          LET typ0 == SubSeq(remain0, 1, 4)
              remain1 == SubSeq(remain0, 5, Len(remain0))
              n == UsizeNat(len)
              data == SubSeq(remain1, 1, n)
              remain2 == SubSeq(remain1, n + 1, Len(remain1))
              chunk0 == Chunk_new([data |-> typ0], data)
          IN
            IF Len(remain2) # 4 THEN Panic(48)
            ELSE IF CrcDiffers(chunk0, from_be_bytes(remain2)) THEN Err(52)
            ELSE IF ChunkType_try_from(typ0).kind = "Err" THEN Err(44)
            ELSE Ok(chunk0)

\* impl TryFrom<&[u8]> for Chunk
Chunk_try_from(value) ==
    IF Len(value) < 4 THEN Err(28)
    ELSE
      LET len == AsUsize(from_be_bytes(SubSeq(value, 1, 4)))
          remain0 == SubSeq(value, 5, Len(value))
      IN
        IF NotEnough(remain0, len) THEN Err(36)
        ELSE
          LET typ0 == SubSeq(remain0, 1, 4)
              remain1 == SubSeq(remain0, 5, Len(remain0))
              n == UsizeNat(len)
              data == SubSeq(remain1, 1, n)
              remain2 == SubSeq(remain1, n + 1, Len(remain1))
              typ1 == ChunkType_try_from(typ0)
          IN
            IF typ1.kind = "Err" THEN Err(44)
            ELSE
              LET chunk0 == Chunk_new(typ1.val[1], data)
              IN  \* copy_from_slice panics unless the slice is 4 bytes long
                  IF Len(remain2) # 4 THEN Panic(48)
                  ELSE IF CrcDiffers(chunk0, from_be_bytes(remain2)) THEN Err(52)
                  ELSE Ok(chunk0)

\* The wire image the tests of chunk.rs assemble: length, type, message and
\* crc chained, the two integers in big-endian order.
chunk_data(data_length, chunk_type, message_bytes, crc) ==
    to_be_bytes(data_length) \o chunk_type \o message_bytes \o to_be_bytes(crc)

\* ------------------------------------------------------------------------
\* State: a caller that makes a ChunkType, builds a Chunk from it, reads it
\* through its accessors, puts its wire image in a buffer, possibly damages
\* the buffer, and parses the buffer.
\* ------------------------------------------------------------------------
VARIABLES
    pc,     \* the caller's position
    typ,    \* the result of the last ChunkType construction
    chunk,  \* << >> or << c >>: the Chunk built by Chunk::new
    buf,    \* the byte buffer handed to a constructor or to the parser
    res,    \* the result of Chunk::try_from(buf)
    out,    \* the value the last accessor or predicate returned
    dlen    \* data.len() (a usize) of a Chunk whose payload is not enumerated

vars == << pc, typ, chunk, buf, res, out, dlen >>

NoOut == [fn |-> "none", val |-> << >>]

\* Inputs.
TagStrings ==
    { << 82, 117, 83, 116 >>, << 114, 117, 83, 116 >>, << 82, 85, 83, 116 >>,
      << 82, 117, 115, 116 >>, << 82, 117, 83, 84 >>, << 82, 117, 49, 116 >> }
    \cup { [i \in 1..n |-> 82] : n \in (0..MaxStrLen) \ {4} }

DataBytes == { 65, 195 }
Payloads == UNION { [1..n -> DataBytes] : n \in 0..MaxData }
PokeBytes == { 0, 49, 65, 255 }

Init ==
    /\ pc = "type"
    /\ typ = NoResult
    /\ chunk = << >>
    /\ buf = << >>
    /\ res = NoResult
    /\ out = NoOut
    /\ dlen = UsizeOf(0)

\* ChunkType::from_str(s)
FromStr(s) ==
    /\ pc = "type"
    /\ typ' = ChunkType_from_str(s)
    /\ pc' = IF typ'.kind = "Ok" THEN "new" ELSE "rejected"
    /\ UNCHANGED << chunk, buf, res, out, dlen >>

\* Chunk::new(chunk_type, data): the ChunkType is moved into the Chunk.
New(p) ==
    /\ pc = "new"
    /\ chunk' = << Chunk_new(typ.val[1], p) >>
    /\ typ' = NoResult
    /\ pc' = "use"
    /\ UNCHANGED << buf, res, out, dlen >>

\* The Chunk the accessors are called on: the one built by new, or the one
\* the parser returned.
Subject ==
    IF pc = "use" THEN chunk
    ELSE IF pc = "done" /\ res.kind = "Ok" THEN res.val
    ELSE << >>

Read(fn, v) ==
    /\ out' = [fn |-> fn, val |-> v]
    /\ UNCHANGED << pc, typ, chunk, buf, res, dlen >>

Length == Subject # << >> /\ Read("length", Chunk_length(Subject[1]))
GetChunkType == Subject # << >> /\ Read("chunk_type", Chunk_chunk_type(Subject[1]))
GetData == Subject # << >> /\ Read("data", Chunk_data(Subject[1]))
GetCrc == Subject # << >> /\ Read("crc", Chunk_crc(Subject[1]))
DataAsString == Subject # << >> /\ Read("data_as_string", Chunk_data_as_string(Subject[1]))
AsBytes == Subject # << >> /\ Read("as_bytes", Chunk_as_bytes(Subject[1]))
Display == Subject # << >> /\ Read("fmt", Chunk_fmt(Subject[1]))

\* The wire image of a Chunk, assembled from its accessors.
WireOf(c) ==
    chunk_data(Chunk_length(c), ChunkType_bytes(Chunk_chunk_type(c)).val[1],
               Chunk_data(c), Chunk_crc(c))

Serialize ==
    /\ pc = "use"
    /\ buf' = WireOf(chunk[1])
    /\ out' = NoOut
    /\ pc' = "wire"
    /\ UNCHANGED << typ, chunk, res, dlen >>

\* The buffer b with bit k (0 = least significant) of its last 4 bytes,
\* read as a big-endian u32, flipped.
FlipBit(b, k) ==
    [b EXCEPT ![Len(b) - (k \div 8)] = Xor(@, 2 ^ (k % 8))]

\* Damage to the buffer before it is parsed.
FlipCrcBit(k) ==
    /\ pc = "wire"
    /\ buf' = FlipBit(buf, k)
    /\ pc' = "parse"
    /\ UNCHANGED << typ, chunk, res, out, dlen >>

Truncate(n) ==
    /\ pc = "wire"
    /\ n < Len(buf)
    /\ buf' = SubSeq(buf, 1, n)
    /\ pc' = "parse"
    /\ UNCHANGED << typ, chunk, res, out, dlen >>

Extend(n) ==
    /\ pc = "wire"
    /\ buf' = buf \o [i \in 1..n |-> 0]
    /\ pc' = "parse"
    /\ UNCHANGED << typ, chunk, res, out, dlen >>

Poke(i, b) ==
    /\ pc = "wire"
    /\ i \in 1..Len(buf)
    /\ buf[i] # b
    /\ buf' = [buf EXCEPT ![i] = b]
    /\ pc' = "parse"
    /\ UNCHANGED << typ, chunk, res, out, dlen >>

\* Chunk::try_from(&buf)
TryFrom ==
    /\ pc \in { "wire", "parse" }
    /\ res' = Chunk_try_from(buf)
    /\ pc' = "done"
    /\ UNCHANGED << typ, chunk, buf, out, dlen >>

Next ==
    \/ \E s \in TagStrings : FromStr(s)
    \/ \E p \in Payloads : New(p)
    \/ Length
    \/ GetChunkType
    \/ GetData
    \/ GetCrc
    \/ DataAsString
    \/ AsBytes
    \/ Display
    \/ Serialize
    \/ \E k \in 0..31 : FlipCrcBit(k)
    \/ \E n \in 0..(MaxData + 12) : Truncate(n)
    \/ \E n \in 1..MaxExtra : Extend(n)
    \/ \E i \in 1..(MaxData + 12), b \in PokeBytes : Poke(i, b)
    \/ TryFrom

Spec == Init /\ [][Next]_vars

\* ------------------------------------------------------------------------
\* ChunkType alone: the input is drawn first, then a constructor is applied
\* to it and the predicates to the ChunkType it returns.
\* ------------------------------------------------------------------------
TypeBytes == { 64, 65, 90, 91, 96, 97, 122, 123, 200 }

TypeInputs ==
    [1..4 -> TypeBytes] \cup TagStrings
    \cup { << 195, 169, 65, 65 >>, << 195, 169, 195, 169 >>, << 65, 66, 67 >>,
           << 65, 66, 67, 68, 69 >>, << 49 >>, << 49, 65, 65, 65, 65 >> }

InitType ==
    /\ pc = "input"
    /\ buf \in TypeInputs
    /\ typ = NoResult
    /\ chunk = << >>
    /\ res = NoResult
    /\ out = NoOut
    /\ dlen = UsizeOf(0)

\* ChunkType::from_str(s), s the string whose bytes are buf
TypeFromStr ==
    /\ pc = "input"
    /\ from_utf8(buf).kind = "Ok"
    /\ typ' = ChunkType_from_str(from_utf8(buf).val[1])
    /\ pc' = "typed"
    /\ UNCHANGED << chunk, buf, res, out, dlen >>

\* ChunkType::try_from(a), a the 4-byte array buf
TypeTryFrom ==
    /\ pc = "input"
    /\ Len(buf) = 4
    /\ typ' = ChunkType_try_from(buf)
    /\ pc' = "typed"
    /\ UNCHANGED << chunk, buf, res, out, dlen >>

\* Chunk::try_from on the wire image of an empty chunk whose type is buf
TypeInChunk ==
    /\ pc = "input"
    /\ Len(buf) = 4
    /\ res' = Chunk_try_from(
                 chunk_data(<< 0, 0 >>, buf, << >>,
                            CrcFinalize(CrcUpdate(CRC_INIT, buf, 1))))
    /\ pc' = "parsed"
    /\ UNCHANGED << typ, chunk, buf, out, dlen >>

Ask(fn, v) ==
    /\ pc = "typed"
    /\ typ.kind = "Ok"
    /\ out' = [fn |-> fn, val |-> v]
    /\ UNCHANGED << pc, typ, chunk, buf, res, dlen >>

IsValid == typ.kind = "Ok" /\ Ask("is_valid", ChunkType_is_valid(typ.val[1]))
IsCritical == typ.kind = "Ok" /\ Ask("is_critical", ChunkType_is_critical(typ.val[1]))
IsPublic == typ.kind = "Ok" /\ Ask("is_public", ChunkType_is_public(typ.val[1]))
IsReservedBitValid ==
    typ.kind = "Ok"
    /\ Ask("is_reserved_bit_valid", ChunkType_is_reserved_bit_valid(typ.val[1]))
IsSafeToCopy ==
    typ.kind = "Ok" /\ Ask("is_safe_to_copy", ChunkType_is_safe_to_copy(typ.val[1]))
Bytes == typ.kind = "Ok" /\ Ask("bytes", ChunkType_bytes(typ.val[1]))
TypeDisplay == typ.kind = "Ok" /\ Ask("fmt", ChunkType_fmt(typ.val[1]))

NextType ==
    \/ TypeFromStr
    \/ TypeTryFrom
    \/ TypeInChunk
    \/ IsValid
    \/ IsCritical
    \/ IsPublic
    \/ IsReservedBitValid
    \/ IsSafeToCopy
    \/ Bytes
    \/ TypeDisplay

SpecType == InitType /\ [][NextType]_vars

\* ------------------------------------------------------------------------
\* length() on payloads too long to enumerate: the Chunk is known by the
\* length of its payload alone.
\* ------------------------------------------------------------------------
BigLens ==
    { UsizeAdd(base, d) :
        base \in { UsizeOf(0), << 0, 0, 65535, LimbMod - MaxBigDelta >> },
        d \in 0..(2 * MaxBigDelta) }

InitLen ==
    /\ pc = "len"
    /\ dlen = UsizeOf(0)
    /\ typ = NoResult
    /\ chunk = << >>
    /\ buf = << >>
    /\ res = NoResult
    /\ out = NoOut

\* Chunk::new(chunk_type, data) with data.len() = n
NewLen(n) ==
    /\ pc = "len"
    /\ dlen' = n
    /\ pc' = "built"
    /\ UNCHANGED << typ, chunk, buf, res, out >>

\* length() of that Chunk
LengthLen ==
    /\ pc = "built"
    /\ out' = [fn |-> "length", val |-> length_of(dlen)]
    /\ UNCHANGED << pc, typ, chunk, buf, res, dlen >>

NextLen ==
    \/ \E n \in BigLens : NewLen(n)
    \/ LengthLen

SpecLen == InitLen /\ [][NextLen]_vars

\* ------------------------------------------------------------------------
\* Properties.
\* ------------------------------------------------------------------------
Letters == (65..90) \cup (97..122)
UpperCase == 65..90
LowerCase == 97..122

\* CRC-32 from its parameters alone: most significant bit first with the
\* unreflected polynomial, every input byte reflected (refin), the register
\* reflected at the end (refout), then the final exclusive or.
RECURSIVE RefCrcBits(_, _)
RefCrcBits(r, k) ==
    IF k = 0 THEN r
    ELSE IF r[1] >= 32768 THEN RefCrcBits(Xor32(Shl1(r), CRC_32_POLY), k - 1)
    ELSE RefCrcBits(Shl1(r), k - 1)

RECURSIVE RefCrcBytes(_, _, _)
RefCrcBytes(r, bytes, i) ==
    IF i > Len(bytes) THEN r
    ELSE RefCrcBytes(
            RefCrcBits(<< Xor(r[1], Reflect(bytes[i], 8) * U8Mod), r[2] >>, 8),
            bytes, i + 1)

RefCrc(bytes) == Xor32(Reflect32(RefCrcBytes(CRC_INIT, bytes, 1)), CRC_XOROUT)

\* The u32 that four bytes spell in big-endian order, and the converse.
BigEndian(b) == << b[1] * 256 + b[2], b[3] * 256 + b[4] >>
BigEndianBytes(x) == << x[1] \div 256, x[1] % 256, x[2] \div 256, x[2] % 256 >>

\* The wire image of the Chunk built by Chunk::new.
Wire == WireOf(chunk[1])

\* Every Chunk in existence.
Chunks == { chunk[i] : i \in 1..Len(chunk) } \cup { res.val[i] : i \in 1..Len(res.val) }

\* The buffer is shorter than its length field demands (the buffers of the
\* model are far shorter than 65536 bytes).
TooShortBuf(b) ==
    \/ Len(b) < 4
    \/ b[1] # 0
    \/ b[2] # 0
    \/ Len(b) - 4 < b[3] * 256 + b[4] + 8

\* C1: parsing the wire image length ++ tag ++ payload ++ checksum of
\* Chunk::new(t, p) succeeds and returns a chunk equal to Chunk::new(t, p)
\* in tag, payload and checksum.
C1_RoundTrip ==
    (pc = "done" /\ chunk # << >> /\ buf = Wire) =>
        /\ res.kind = "Ok"
        /\ ChunkType_eq(res.val[1].typ, chunk[1].typ)
        /\ res.val[1].data = chunk[1].data
        /\ res.val[1].crc = chunk[1].crc

C1_Witness ==
    /\ pc = "done"
    /\ chunk # << >>
    /\ buf = Wire
    /\ res.kind = "Ok"
    /\ Len(chunk[1].data) >= 1

\* C2: every Chunk in existence, built by new or returned by the parser,
\* before and after any accessor call, holds the CRC-32 (polynomial
\* 0x04C11DB7, init 0xFFFFFFFF, refin = refout = true, xorout 0xFFFFFFFF) of
\* its 4 type bytes followed by its payload, and crc() returns it.
C2_ChecksumInvariant ==
    /\ \A c \in Chunks : Chunk_crc(c) = RefCrc(c.typ.data \o c.data)
    /\ (out.fn = "crc" /\ Subject # << >>) =>
            out.val = RefCrc(Subject[1].typ.data \o Subject[1].data)

C2_Witness ==
    /\ pc = "done"
    /\ res.kind = "Ok"
    /\ out.fn = "crc"
    /\ Len(res.val[1].data) >= 1

\* The buffer is BE32(len(p)) ++ t ++ p ++ BE32(crc of t ++ p), t 4 letters.
WellFormed(b) ==
    /\ Len(b) >= 12
    /\ SubSeq(b, 1, 4) = << 0, 0, (Len(b) - 12) \div 256, (Len(b) - 12) % 256 >>
    /\ \A i \in 5..8 : b[i] \in Letters
    /\ SubSeq(b, Len(b) - 3, Len(b)) = BigEndianBytes(RefCrc(SubSeq(b, 5, Len(b) - 4)))

\* C3: parsing a well-formed buffer succeeds; the chunk returned has the
\* buffer's tag as chunk_type(), its payload bytes as data(), the payload
\* length as length() and the trailing field as crc().
C3_ParseWellFormed ==
    (pc = "done" /\ WellFormed(buf)) =>
        /\ res.kind = "Ok"
        /\ Chunk_chunk_type(res.val[1]).data = SubSeq(buf, 5, 8)
        /\ Chunk_data(res.val[1]) = SubSeq(buf, 9, Len(buf) - 4)
        /\ Chunk_length(res.val[1]) = << 0, Len(buf) - 12 >>
        /\ Chunk_crc(res.val[1]) = BigEndian(SubSeq(buf, Len(buf) - 3, Len(buf)))

C3_Witness ==
    /\ pc = "done"
    /\ WellFormed(buf)
    /\ Len(buf) > 12
    /\ res.kind = "Ok"

\* C4: whatever the input, the parser returns a Chunk or an error value; it
\* never aborts.
C4_NoAbort == pc = "done" => res.kind \in { "Ok", "Err" }

\* The buffer holds exactly the bytes its length field announces: 4 of
\* length, 4 of tag, the payload and 4 of checksum.
ExactLength(b) == ~TooShortBuf(b) /\ Len(b) = b[3] * 256 + b[4] + 12

C7_Precedence ==
    pc = "done" =>
        /\ TooShortBuf(buf) => (res.kind = "Err" /\ res.at \in { 28, 36 })
        /\ (~TooShortBuf(buf) /\ \E i \in 5..8 : buf[i] \notin Letters) =>
                (res.kind = "Err" /\ res.at = 44)

\* The failures of different checks reach the caller as different values:
\* the failure observed differs from the one an empty buffer gives (a
\* failure of the first length check) unless it comes from that same check.
C7_Distinct ==
    (pc = "done" /\ res.kind = "Err" /\ res.at # Chunk_try_from(<< >>).at) =>
        Visible(res) # Visible(Chunk_try_from(<< >>))

Answer(fn, t) ==
    IF fn = "is_valid" THEN ChunkType_is_valid([data |-> t])
    ELSE IF fn = "is_critical" THEN ChunkType_is_critical([data |-> t])
    ELSE IF fn = "is_public" THEN ChunkType_is_public([data |-> t])
    ELSE IF fn = "is_reserved_bit_valid" THEN ChunkType_is_reserved_bit_valid([data |-> t])
    ELSE ChunkType_is_safe_to_copy([data |-> t])

\* The one byte each predicate reads (1-based).
ByteOf(fn) ==
    IF fn = "is_critical" THEN 1
    ELSE IF fn = "is_public" THEN 2
    ELSE IF fn = "is_safe_to_copy" THEN 4
    ELSE 3

Predicates ==
    { "is_valid", "is_critical", "is_public", "is_reserved_bit_valid", "is_safe_to_copy" }

\* C9: is_critical is the case of byte 0, is_public of byte 1, is_valid and
\* is_reserved_bit_valid of byte 2 (upper case), is_safe_to_copy of byte 3
\* (lower case); no predicate changes when the other bytes change; RuSt is
\* critical, not public, reserved-bit valid and safe to copy.
C9_Classification ==
    (pc = "typed" /\ out.fn \in Predicates) =>
        /\ out.val = IF out.fn = "is_safe_to_copy"
                     THEN buf[4] \in LowerCase
                     ELSE buf[ByteOf(out.fn)] \in UpperCase
        /\ \A t \in [1..4 -> { 65, 90, 97, 122 }] :
                t[ByteOf(out.fn)] = buf[ByteOf(out.fn)] => Answer(out.fn, t) = out.val
        /\ buf = << 82, 117, 83, 116 >> => (out.val = (out.fn # "is_public"))

C9_Witness ==
    /\ pc = "typed"
    /\ buf = << 82, 117, 83, 116 >>
    /\ out.fn = "is_public"
    /\ out.val = FALSE

\* C10: length() equals the number of bytes of the payload, whatever the
\* payload's length.
C10_LengthIsPayloadLength ==
    (pc = "built" /\ out.fn = "length") => AsUsize(out.val) = dlen

====
